---- MODULE Spec2Model ----
(***************************************************************************)
(* Model of the host-side USB streaming test orchestrator RunTest()        *)
(* (sw/host/tests/usbdev/usbdev_stream/stream_test.cc).                    *)
(*                                                                         *)
(* One action per external call or loop step of RunTest.  The collaborators*)
(* (USBDevStream objects, USBDevice, the clock) answer nondeterministically.*)
(* The clock is only observable where the code reads it (time_us() and     *)
(* elapsed_time()), so it advances at those reads.                         *)
(***************************************************************************)
EXTENDS Integers, Naturals, Sequences, FiniteSets, TLC

\* ------------------------------------------------------------------------
\* Bounds of the model
\* ------------------------------------------------------------------------
\* Largest value of testArg[0] drawn for the test descriptor.
MaxArg0 == 2
\* Largest value of testArg[0] drawn where only the open phase is explored.
MaxOpenArg0 == 4
\* Largest value of testArg[0] drawn where the descriptor is interpreted
\* over its whole range (values above 15 have bits in the high nibble).
MaxDescArg0 == 18
\* Number of clock readings at which the clock is seen to have advanced.
MaxAdvances == 5
\* Suspend/resume cycles after which every stream serviced answers
\* Completed(), in the runs checked for termination.
MaxLiveCycles == 1
\* Largest stream count of the runs checked for termination.
MaxLiveStreams == 2
\* Largest number of arguments given to fw_error_decoder.
MaxArgs == 2

\* ------------------------------------------------------------------------
\* Program constants
\* ------------------------------------------------------------------------
kTransferBytes == 16777216
kRunInterval == 5000000
kSuspendingInterval == 5000
kSuspendedInterval == 5000000
kResumeInterval == 30000
kReportThreshold == 4096
\* Largest value of int32_t; the model's integers stay below 2^31.
Int32Max == 2147483647

\* STREAMS_MAX, the size of streams[]
STREAMS_MAX == 16

\* Stream slots: nstreams is a 4-bit value, so indices are 0..14.
StreamIdx == 0..14

\* Increments by which the clock may be seen to advance between two reads.
TimeSteps == {kSuspendingInterval, kRunInterval}

\* Values drawn for a stream's BytesSent().
SentValues == {0, kReportThreshold}

\* Test descriptors drawn for the run: testArg[1] packs the types of a
\* Mixed test (6: Bulk, Isochronous; 14: Bulk, Interrupt, Control).
Arg1Values == {6, 14}
Descriptor(tn, a0, a1) ==
  [num |-> tn,
   arg |-> [k \in 0..3 |-> IF k = 0 THEN a0 ELSE IF k = 1 THEN a1 ELSE 0]]
DescriptorsUpTo(m) ==
  {Descriptor(tn, a0, 0) : tn \in {"Streams", "Iso"}, a0 \in 0..m}
    \cup {Descriptor("Mixed", a0, a1) : a0 \in 0..m, a1 \in Arg1Values}
    \cup {Descriptor("Other", 0, 0)}

\* Bytes drawn for testArg[1..3] where the descriptor is interpreted over
\* its whole range: the 2-bit codes, low bits first, are 0,0,0,0 for 0;
\* 3,2,1,0 for 27; 2,3,2,2 for 174.
ArgBytes == {0, 27, 174}
WideDescriptor(tn, a0, a1, a2, a3) ==
  [num |-> tn,
   arg |-> [k \in 0..3 |->
              IF k = 0 THEN a0 ELSE IF k = 1 THEN a1
              ELSE IF k = 2 THEN a2 ELSE a3]]
WideArg0 == (0..MaxDescArg0) \cup {243, 255}
WideDescriptors ==
  {WideDescriptor("Mixed", a0, a1, a2, a3) :
     a0 \in WideArg0, a1 \in ArgBytes, a2 \in ArgBytes, a3 \in ArgBytes}
    \cup {WideDescriptor(tn, a0, b, b, b) :
            tn \in {"Streams", "Iso", "Other"}, a0 \in WideArg0,
            b \in {0, 174}}

VARIABLES
  cfg_serial, cfg_suspending,  \* cfg.serial, cfg.suspending
  libusb,                      \* build: STREAMTEST_LIBUSB
  testNum, testArg,            \* dev->TestNumber(), dev->TestArg(0..3)
  pc, rc,                      \* position in RunTest, its return value
  idx, nstreams, transfer_bytes,
  streams,                     \* streams[]: "null" | "live" | "deleted"
  allocated,                   \* stream objects created by new and not deleted
  devState,                    \* dev->CurrentState()
  now, advances, start_time,   \* clock, start_time
  done, failed, tickState,
  total_bytes, total_recv, total_sent,
  prev_bytes, reported,        \* last reported total; report made this tick
  elapsed_us, loop_entered,    \* elapsed_time of line 455; clock at line 331
  completed,                   \* state of each stream object
  \* history of the calls made
  openCalls, deleteCalls, stopCalls, stopRets,
  streamTypes,                 \* streamType of each iteration of the open loop
  svcTick, devSvcTick, pauses, resumes, suspends, devResumes, setStreamings,
  svcFailedAt,
  \* fw_error_decoder: its error table, argv[1..], the loop index i, and
  \* the lines printed on stdout (pc and rc are its position and its exit
  \* status)
  error_table, argv, argi, output

decVars == <<error_table, argv, argi, output>>
cfgVars == <<cfg_serial, cfg_suspending, libusb, testNum, testArg>>
ctlVars == <<pc, rc, idx, nstreams, transfer_bytes>>
objVars == <<streams, allocated>>
timeVars == <<now, advances, start_time>>
tickVars == <<done, failed, tickState, total_bytes, total_recv, total_sent>>
strVars == <<completed>>
openHist == <<openCalls, deleteCalls, streamTypes>>
stopHist == <<stopCalls, stopRets>>
cycHist == <<pauses, resumes, suspends, devResumes, setStreamings>>
svcHist == <<svcTick, devSvcTick, svcFailedAt>>
repVars == <<prev_bytes, reported, elapsed_us, loop_entered>>

vars == <<decVars, cfgVars, ctlVars, objVars, devState, timeVars, tickVars, repVars,
          strVars, openHist, stopHist, cycHist, svcHist>>

\* ------------------------------------------------------------------------
\* Test descriptor interpreter (lines 191-260)
\* ------------------------------------------------------------------------
RECURSIVE Pow2(_)
Pow2(n) == IF n = 0 THEN 1 ELSE 2 * Pow2(n - 1)

\* Mutant of NStreams: the first argument is taken unmasked.
NStreams_NoMask(tn, args) ==
  IF tn \in {"Streams", "Iso", "Mixed"} THEN args[0] ELSE 2

\* nstreams (lines 191-204)
NStreams(tn, args) ==
  IF tn \in {"Streams", "Iso", "Mixed"} THEN args[0] % 16 ELSE 2

\* Mutant of MixedTypes: the bytes are assembled in the opposite order.
MixedTypes_Reversed(args) == args[1] * 65536 + args[2] * 256 + args[3]

\* mixedTypes (lines 237-238)
MixedTypes(args) == args[3] * 65536 + args[2] * 256 + args[1]

\* the 2-bit decoding (lines 241-254)
MixedTypeOf(args, i) ==
  LET code == (MixedTypes(args) \div Pow2(2 * i)) % 4
  IN CASE code = 0 -> "Control"
       [] code = 1 -> "Isochronous"
       [] code = 2 -> "Bulk"
       [] OTHER -> "Interrupt"

\* Mutant of StreamTypeOf: the serial preference is followed although
\* suspend/resume testing is enabled.
StreamTypeOf_SerialAlways(tn, args, serial, suspending, i) ==
  CASE tn = "Streams" -> IF serial THEN "Serial" ELSE "Bulk"
    [] tn = "Iso" -> "Isochronous"
    [] tn = "Mixed" -> MixedTypeOf(args, i)
    [] OTHER -> "Bulk"

\* streamType of stream i (lines 218-260)
StreamTypeOf(tn, args, serial, suspending, i) ==
  CASE tn = "Streams" -> IF serial /\ ~suspending THEN "Serial" ELSE "Bulk"
    [] tn = "Iso" -> "Isochronous"
    [] tn = "Mixed" -> MixedTypeOf(args, i)
    [] OTHER -> "Bulk"

\* the cases of switch (streamType) that create a stream (lines 269-308)
HasFactory(type, withLibusb) ==
  \/ type = "Serial"
  \/ withLibusb /\ type \in {"Interrupt", "Bulk"}

\* Mutant of ForCond: the loops stop one stream short.
ForCond_OneShort(i, n) == i + 1 < n

\* for (unsigned idx = 0U; idx < nstreams; idx++): the loop condition
\* (lines 215, 344, 366, 417, 435, 458)
ForCond(i, n) == i < n

\* transfer_bytes (line 208), for nstreams > 0
PerStreamBytes(n) == (kTransferBytes + n - 1) \div n

\* ------------------------------------------------------------------------
\* Clock
\* ------------------------------------------------------------------------
\* The values the clock can show at the next read.
ClockReads ==
  {now} \cup (IF advances < MaxAdvances THEN {now + d : d \in TimeSteps}
                                        ELSE {})

Advanced(t) == IF t = now THEN advances ELSE advances + 1

\* ------------------------------------------------------------------------
\* Initial state: RunTest is entered with the descriptor read
\* ------------------------------------------------------------------------
RunTestInit(descs, label, adv) ==
  /\ cfg_suspending \in BOOLEAN
  /\ libusb \in BOOLEAN
  /\ \E d \in descs : testNum = d.num /\ testArg = d.arg
  \* cfg.serial is read for the Streams test only (line 227)
  /\ cfg_serial \in (IF testNum = "Streams" THEN BOOLEAN ELSE {FALSE})
  /\ pc = label /\ rc = -1
  /\ idx = 0 /\ nstreams = 0 /\ transfer_bytes = 0
  /\ streams = [i \in StreamIdx |-> "null"]
  /\ allocated = {}
  /\ devState = "Streaming"
  /\ now = 0 /\ advances = adv /\ start_time = 0
  /\ done = FALSE /\ failed = FALSE /\ tickState = "Streaming"
  /\ total_bytes = 0 /\ total_recv = 0 /\ total_sent = 0
  /\ prev_bytes = 0 /\ reported = FALSE /\ elapsed_us = 0 /\ loop_entered = 0
  /\ completed = [i \in StreamIdx |-> FALSE]
  /\ openCalls = <<>> /\ deleteCalls = <<>>
  /\ streamTypes = [i \in StreamIdx |-> "none"]
  /\ stopCalls = <<>> /\ stopRets = <<>>
  /\ svcTick = {} /\ devSvcTick = FALSE /\ svcFailedAt = -1
  /\ pauses = [i \in StreamIdx |-> 0]
  /\ resumes = [i \in StreamIdx |-> 0]
  /\ suspends = 0 /\ devResumes = 0 /\ setStreamings = 0

\* fw_error_decoder is not running.
DecoderIdle ==
  error_table = <<>> /\ argv = <<>> /\ argi = 1 /\ output = <<>>

InitAt(descs, label, adv) == RunTestInit(descs, label, adv) /\ DecoderIdle

InitWith(descs) == InitAt(descs, "configure", 0)

\* ------------------------------------------------------------------------
\* Stream count and transfer size (lines 183-212)
\* ------------------------------------------------------------------------
\* Values the division of line 208 can leave in transfer_bytes.  With
\* nstreams = 0 the division is undefined: the build either traps (see
\* Configure) or leaves an arbitrary 32-bit value.
TransferBytesValues(n) ==
  IF n = 0 THEN {0, Int32Max} ELSE {PerStreamBytes(n)}

Configure ==
  /\ pc = "configure"
  /\ nstreams' = NStreams(testNum, testArg)
  /\ \/ /\ transfer_bytes' \in TransferBytesValues(nstreams')
        /\ pc' = "open"
     \/ /\ nstreams' = 0
        /\ transfer_bytes' = transfer_bytes
        /\ pc' = "crashed"
  /\ idx' = 0
  /\ UNCHANGED <<decVars, cfgVars, rc, objVars, devState, timeVars, tickVars,
                 repVars, strVars, openHist, stopHist, cycHist, svcHist>>

\* ------------------------------------------------------------------------
\* Opening the streams (lines 215-320)
\* ------------------------------------------------------------------------
\* Mutant of AfterOpenFailure: return 1 without the rollback.
AfterOpenFailure_NoRollback(i) == "returned"

\* Where the open loop goes when stream i did not open (lines 310-319).
AfterOpenFailure(i) == IF i > 0 THEN "rollback" ELSE "returned"

\* One iteration of the open loop whose stream type has a factory: the
\* object is created, Open() is called and answers ok.
OpenStream ==
  /\ pc = "open" /\ ForCond(idx, nstreams)
  /\ HasFactory(StreamTypeOf(testNum, testArg, cfg_serial, cfg_suspending, idx),
                libusb)
  /\ \E ok \in BOOLEAN :
       /\ allocated' = allocated \cup {idx}
       /\ openCalls' = Append(openCalls, idx)
       /\ streamTypes' =
            [streamTypes EXCEPT
               ![idx] = StreamTypeOf(testNum, testArg, cfg_serial,
                                     cfg_suspending, idx)]
       /\ IF ok
            THEN /\ streams' = [streams EXCEPT ![idx] = "live"]
                 /\ idx' = idx + 1
                 /\ pc' = "open" /\ rc' = rc
            ELSE /\ streams' = streams
                 /\ idx' = idx
                 /\ pc' = AfterOpenFailure(idx)
                 /\ rc' = IF pc' = "returned" THEN 1 ELSE rc
  /\ UNCHANGED <<decVars, cfgVars, nstreams, transfer_bytes, devState, timeVars,
                 tickVars, repVars, strVars, deleteCalls, stopHist,
                 cycHist, svcHist>>

\* One iteration of the open loop whose stream type has no factory: the
\* default case asserts, which aborts the process; in a build with NDEBUG
\* the assertion is compiled out and the stream counts as not opened.
OpenNoFactory ==
  /\ pc = "open" /\ ForCond(idx, nstreams)
  /\ ~HasFactory(StreamTypeOf(testNum, testArg, cfg_serial, cfg_suspending, idx),
                 libusb)
  /\ \/ /\ pc' = AfterOpenFailure(idx)
        /\ rc' = IF pc' = "returned" THEN 1 ELSE rc
     \/ /\ pc' = "aborted" /\ rc' = rc
  /\ streamTypes' =
       [streamTypes EXCEPT
          ![idx] = StreamTypeOf(testNum, testArg, cfg_serial, cfg_suspending,
                                idx)]
  /\ UNCHANGED <<decVars, cfgVars, idx, nstreams, transfer_bytes, objVars, devState,
                 timeVars, tickVars, repVars, strVars, openCalls, deleteCalls, stopHist,
                 cycHist, svcHist>>

\* The stream deleted by one iteration of the do-while at lines 313-316.
RollbackTarget(i) == i - 1

\* do { idx--; delete streams[idx]; } while (idx > 0U); return 1;
Rollback ==
  /\ pc = "rollback"
  /\ LET t == RollbackTarget(idx) IN
       /\ idx' = t
       /\ streams' = [streams EXCEPT ![t] = "deleted"]
       /\ allocated' = allocated \ {t}
       /\ deleteCalls' = Append(deleteCalls, t)
       /\ IF t > 0 THEN pc' = "rollback" /\ rc' = rc
                   ELSE pc' = "returned" /\ rc' = 1
  /\ UNCHANGED <<decVars, cfgVars, nstreams, transfer_bytes, devState, timeVars,
                 tickVars, repVars, strVars, openCalls, streamTypes, stopHist, cycHist,
                 svcHist>>

\* All streams opened: "Streaming..." and the loop's locals (lines 322-333).
EnterLoop ==
  /\ pc = "open" /\ ~ForCond(idx, nstreams)
  /\ \E t \in ClockReads :
       /\ now' = t /\ advances' = Advanced(t) /\ start_time' = t
  /\ loop_entered' = now'
  /\ prev_bytes' = 0
  /\ done' = FALSE
  /\ pc' = "tick"
  /\ UNCHANGED <<decVars, cfgVars, rc, idx, nstreams, transfer_bytes, objVars, devState,
                 reported, elapsed_us, failed, tickState, total_bytes, total_recv, total_sent,
                 strVars, openHist, stopHist, cycHist, svcHist>>

\* ------------------------------------------------------------------------
\* The main loop (lines 334-453)
\* ------------------------------------------------------------------------
\* Mutant of StateCase: the Suspended case falls into stream servicing.
StateCase_ServiceWhenSuspended(s) ==
  CASE s = "Streaming" -> "service"
    [] s = "Suspending" -> "suspending"
    [] s = "Suspended" -> "service"
    [] s = "Resuming" -> "resuming"

\* switch (dev->CurrentState()): the case entered for state s (lines 341-426).
StateCase(s) ==
  CASE s = "Streaming" -> "service"
    [] s = "Suspending" -> "suspending"
    [] s = "Suspended" -> "suspended"
    [] s = "Resuming" -> "resuming"

\* Mutant of DoneAtTickStart: done is set before the switch, for every
\* state.
DoneAtTickStart_AnyState(s) == TRUE

\* done as set before the switch and on entry to the Streaming case
\* (lines 340, 343).
DoneAtTickStart(s) == s = "Streaming"

\* Start of one iteration of the do-while: locals reset, the state is read.
TickBegin ==
  /\ pc = "tick"
  /\ total_bytes' = 0 /\ total_recv' = 0 /\ total_sent' = 0
  /\ failed' = FALSE
  /\ tickState' = devState
  /\ done' = DoneAtTickStart(devState)
  /\ idx' = 0
  /\ pc' = StateCase(devState)
  /\ svcTick' = {} /\ devSvcTick' = FALSE
  /\ reported' = FALSE
  /\ UNCHANGED <<decVars, cfgVars, rc, nstreams, transfer_bytes, objVars, devState,
                 timeVars, prev_bytes, elapsed_us, loop_entered, strVars, openHist, stopHist, cycHist,
                 svcFailedAt>>

\* Mutant of DoneAfter: done follows the stream asked last.
DoneAfter_LastOnly(d, c) == c

\* done after stream idx answered Completed() = c (lines 357-359).
DoneAfter(d, c) == IF c THEN d ELSE FALSE

\* Where control goes when Service() returns false: break leaves the
\* for loop of line 344, to the statement at line 363.
AfterServiceFailure == "suspendCheck"

\* Values drawn for a stream's BytesRecvd(): nothing, or all of tb.
RecvValues(tb) == {0, tb}

\* One iteration of the service loop (lines 344-360).  The stream's
\* Service() answers ok and leaves the stream complete or not; its
\* counters answer r and w.
ServiceStream ==
  /\ pc = "service" /\ ForCond(idx, nstreams)
  /\ svcTick' = svcTick \cup {idx}
  /\ \E ok \in BOOLEAN :
       IF ok
         THEN /\ \E c \in BOOLEAN, r \in RecvValues(transfer_bytes),
                    w \in SentValues :
                   /\ completed' = [completed EXCEPT ![idx] = c]
                   /\ total_bytes' = total_bytes + transfer_bytes
                   /\ total_recv' = total_recv + r
                   /\ total_sent' = total_sent + w
                   /\ done' = DoneAfter(done, c)
              /\ idx' = idx + 1
              /\ pc' = "service"
              /\ UNCHANGED <<failed, svcFailedAt>>
         ELSE /\ failed' = TRUE
              /\ svcFailedAt' = idx
              /\ pc' = AfterServiceFailure
              /\ UNCHANGED <<idx, done, total_bytes, total_recv, total_sent,
                             strVars>>
  /\ UNCHANGED <<decVars, cfgVars, rc, nstreams, transfer_bytes, objVars, devState,
                 timeVars, tickState, repVars, openHist, stopHist, cycHist,
                 devSvcTick>>

\* The service loop ends with every stream serviced (line 344).
ServiceLoopExit ==
  /\ pc = "service" /\ ~ForCond(idx, nstreams)
  /\ pc' = "suspendCheck"
  /\ UNCHANGED <<decVars, cfgVars, rc, idx, nstreams, transfer_bytes, objVars, devState,
                 timeVars, tickVars, repVars, strVars, openHist, stopHist,
                 cycHist, svcHist>>

\* The condition of line 363, the clock showing t.
SuspendDue(suspending, t, since) == suspending /\ t - since >= kRunInterval

\* Mutant of SuspendCheck: cfg.suspending is not consulted.
SuspendCheck_IgnoreConfig ==
  /\ pc = "suspendCheck"
  /\ \E t \in ClockReads :
       /\ now' = t /\ advances' = Advanced(t)
       /\ IF SuspendDue(TRUE, t, start_time)
            THEN pc' = "pause" /\ idx' = 0
            ELSE pc' = "devService" /\ idx' = idx
  /\ UNCHANGED <<decVars, cfgVars, rc, nstreams, transfer_bytes, objVars, devState,
                 start_time, tickVars, repVars, strVars, openHist, stopHist,
                 cycHist, svcHist>>

\* if (cfg.suspending && elapsed_time(start_time) >= kRunInterval)
SuspendCheck ==
  /\ pc = "suspendCheck"
  /\ \E t \in (IF cfg_suspending THEN ClockReads ELSE {now}) :
       /\ now' = t /\ advances' = Advanced(t)
       /\ IF SuspendDue(cfg_suspending, t, start_time)
            THEN pc' = "pause" /\ idx' = 0
            ELSE pc' = "devService" /\ idx' = idx
  /\ UNCHANGED <<decVars, cfgVars, rc, nstreams, transfer_bytes, objVars, devState,
                 start_time, tickVars, repVars, strVars, openHist, stopHist,
                 cycHist, svcHist>>

\* streams[idx]->Pause() (lines 366-368)
PauseStream ==
  /\ pc = "pause" /\ ForCond(idx, nstreams)
  /\ pauses' = [pauses EXCEPT ![idx] = @ + 1]
  /\ idx' = idx + 1
  /\ UNCHANGED <<decVars, cfgVars, pc, rc, nstreams, transfer_bytes, objVars, devState,
                 timeVars, tickVars, repVars, strVars, openHist, stopHist,
                 resumes, suspends, devResumes, setStreamings, svcHist>>

PauseLoopExit ==
  /\ pc = "pause" /\ ~ForCond(idx, nstreams)
  /\ pc' = "suspend"
  /\ UNCHANGED <<decVars, cfgVars, rc, idx, nstreams, transfer_bytes, objVars, devState,
                 timeVars, tickVars, repVars, strVars, openHist, stopHist,
                 cycHist, svcHist>>

\* USBDevice::Suspend() and USBDevice::Resume(): the state they leave.
DevSuspend == "Suspending"
DevResume == "Resuming"

\* dev->Suspend(); start_time = time_us(); (lines 371-373)
SuspendDevice ==
  /\ pc = "suspend"
  /\ devState' = DevSuspend
  /\ suspends' = suspends + 1
  /\ \E t \in ClockReads :
       now' = t /\ advances' = Advanced(t) /\ start_time' = t
  /\ pc' = "devService"
  /\ UNCHANGED <<decVars, cfgVars, rc, idx, nstreams, transfer_bytes, objVars,
                 tickVars, repVars, strVars, openHist, stopHist, pauses,
                 resumes, devResumes, setStreamings, svcHist>>

\* Mutant of Dwell: the Suspended case tests the Suspending interval.
Dwell_WrongInterval(s) ==
  CASE s = "Suspending" -> kSuspendingInterval
    [] s = "Suspended" -> kSuspendingInterval
    [] s = "Resuming" -> kResumeInterval

\* The dwell of a non-Streaming state (lines 399, 408, 416).
Dwell(s) ==
  CASE s = "Suspending" -> kSuspendingInterval
    [] s = "Suspended" -> kSuspendedInterval
    [] s = "Resuming" -> kResumeInterval

\* elapsed_time(start_time) >= interval, the clock showing t.
DwellElapsed(t, since, interval) == t - since >= interval

\* The elapsed-time test of the Suspending, Suspended and Resuming cases.
DwellCheck(label, s, next) ==
  /\ pc = label
  /\ \E t \in ClockReads :
       /\ now' = t /\ advances' = Advanced(t)
       /\ pc' = IF DwellElapsed(t, start_time, Dwell(s)) THEN next
                                                         ELSE "devService"
  /\ idx' = 0
  /\ UNCHANGED <<decVars, cfgVars, rc, nstreams, transfer_bytes, objVars, devState,
                 start_time, tickVars, repVars, strVars, openHist, stopHist,
                 cycHist, svcHist>>

SuspendingCheck == DwellCheck("suspending", "Suspending", "setSuspended")
SuspendedCheck == DwellCheck("suspended", "Suspended", "resumeDevice")

\* Mutant of ResumingCheck: the state is set back to Streaming without the
\* Resume() calls.
ResumingCheck_NoResume == DwellCheck("resuming", "Resuming", "setStreaming")

ResumingCheck == DwellCheck("resuming", "Resuming", "resume")

\* Mutant of AfterSuspending: the Suspending case sets the state back to
\* Streaming.
AfterSuspending_Streaming == "Streaming"

\* The argument of the SetState() call of line 400.
AfterSuspending == "Suspended"

\* Mutant of AfterResuming: the Resuming case sets the state back to
\* Suspended.
AfterResuming_Suspended == "Suspended"

\* The argument of the SetState() call of line 421.
AfterResuming == "Streaming"

\* dev->SetState(StateSuspended); start_time = time_us(); (lines 400-403)
SetSuspended ==
  /\ pc = "setSuspended"
  /\ devState' = AfterSuspending
  /\ \E t \in ClockReads :
       now' = t /\ advances' = Advanced(t) /\ start_time' = t
  /\ pc' = "devService"
  /\ UNCHANGED <<decVars, cfgVars, rc, idx, nstreams, transfer_bytes, objVars,
                 tickVars, repVars, strVars, openHist, stopHist, cycHist,
                 svcHist>>

\* dev->Resume(); start_time = time_us(); (lines 409-411)
ResumeDevice ==
  /\ pc = "resumeDevice"
  /\ devState' = DevResume
  /\ devResumes' = devResumes + 1
  /\ \E t \in ClockReads :
       now' = t /\ advances' = Advanced(t) /\ start_time' = t
  /\ pc' = "devService"
  /\ UNCHANGED <<decVars, cfgVars, rc, idx, nstreams, transfer_bytes, objVars,
                 tickVars, repVars, strVars, openHist, stopHist, pauses,
                 resumes, suspends, setStreamings, svcHist>>

\* streams[idx]->Resume() (lines 417-419)
ResumeStream ==
  /\ pc = "resume" /\ ForCond(idx, nstreams)
  /\ resumes' = [resumes EXCEPT ![idx] = @ + 1]
  /\ idx' = idx + 1
  /\ UNCHANGED <<decVars, cfgVars, pc, rc, nstreams, transfer_bytes, objVars, devState,
                 timeVars, tickVars, repVars, strVars, openHist, stopHist,
                 pauses, suspends, devResumes, setStreamings, svcHist>>

\* Mutant of ResumeLoopExit: the Resume() loop is left after its first
\* iteration.
ResumeLoopExit_AfterFirst ==
  /\ pc = "resume" /\ (~ForCond(idx, nstreams) \/ idx = 1)
  /\ pc' = "setStreaming"
  /\ UNCHANGED <<decVars, cfgVars, rc, idx, nstreams, transfer_bytes, objVars, devState,
                 timeVars, tickVars, repVars, strVars, openHist, stopHist,
                 cycHist, svcHist>>

ResumeLoopExit ==
  /\ pc = "resume" /\ ~ForCond(idx, nstreams)
  /\ pc' = "setStreaming"
  /\ UNCHANGED <<decVars, cfgVars, rc, idx, nstreams, transfer_bytes, objVars, devState,
                 timeVars, tickVars, repVars, strVars, openHist, stopHist,
                 cycHist, svcHist>>

\* dev->SetState(StateStreaming); start_time = time_us(); (lines 421-423)
SetStreaming ==
  /\ pc = "setStreaming"
  /\ devState' = AfterResuming
  /\ setStreamings' = setStreamings + 1
  /\ \E t \in ClockReads :
       now' = t /\ advances' = Advanced(t) /\ start_time' = t
  /\ pc' = "devService"
  /\ UNCHANGED <<decVars, cfgVars, rc, idx, nstreams, transfer_bytes, objVars,
                 tickVars, repVars, strVars, openHist, stopHist, pauses,
                 resumes, suspends, devResumes, svcHist>>

\* if (!failed) failed = !dev->Service(); if (failed) ... (lines 429-434)
DevService ==
  /\ pc = "devService"
  /\ IF failed
       THEN /\ pc' = "stopFailed" /\ idx' = 0
            /\ UNCHANGED <<failed, devSvcTick>>
       ELSE \E ok \in BOOLEAN :
              /\ devSvcTick' = TRUE
              /\ failed' = ~ok
              /\ pc' = IF ok THEN "report" ELSE "stopFailed"
              /\ idx' = 0
  /\ UNCHANGED <<decVars, cfgVars, rc, nstreams, transfer_bytes, objVars, devState,
                 timeVars, done, tickState, total_bytes, total_recv,
                 total_sent, repVars, strVars, openHist, stopHist, cycHist,
                 svcTick, svcFailedAt>>

\* The value RunTest returns after the loop was left through label.
ReturnCode(label) == IF label = "stopFailed" THEN 3 ELSE 0

\* One iteration of a Stop() loop (lines 435-437 and 458-460); Stop()
\* answers ret, which the code discards.
StopStream(label) ==
  /\ pc = label /\ ForCond(idx, nstreams)
  /\ \E ret \in BOOLEAN :
       /\ stopCalls' = Append(stopCalls, idx)
       /\ stopRets' = Append(stopRets, ret)
  /\ idx' = idx + 1
  /\ UNCHANGED <<decVars, cfgVars, pc, rc, nstreams, transfer_bytes, objVars, devState,
                 timeVars, tickVars, repVars, strVars, openHist, cycHist,
                 svcHist>>

\* The Stop() loop is over: return 3 (line 438) or return 0 (line 469).
StopLoopExit(label) ==
  /\ pc = label /\ ~ForCond(idx, nstreams)
  /\ pc' = "returned"
  /\ rc' = ReturnCode(label)
  /\ UNCHANGED <<decVars, cfgVars, idx, nstreams, transfer_bytes, objVars, devState,
                 timeVars, tickVars, repVars, strVars, openHist, stopHist,
                 cycHist, svcHist>>

StopFailed == StopStream("stopFailed")
ReturnFailed == StopLoopExit("stopFailed")
StopDone == StopStream("stopDone")
ReturnDone == StopLoopExit("stopDone")

\* (int32_t)x of a 32-bit unsigned x
AsInt32(x) == IF x > Int32Max THEN (x - Int32Max) - Int32Max - 2 ELSE x

Abs(x) == IF x < 0 THEN 0 - x ELSE x

\* The condition of line 442.
ReportDue(sent, prev, d) ==
  Abs(AsInt32(sent) - AsInt32(prev)) >= kReportThreshold \/ d

\* Progress report (lines 442-452)
Report ==
  /\ pc = "report"
  /\ IF ReportDue(total_sent, prev_bytes, done)
       THEN prev_bytes' = total_sent /\ reported' = TRUE
       ELSE UNCHANGED <<prev_bytes, reported>>
  /\ pc' = "loopCond"
  /\ UNCHANGED <<decVars, cfgVars, rc, idx, nstreams, transfer_bytes, objVars, devState,
                 timeVars, tickVars, elapsed_us, loop_entered, strVars,
                 openHist, stopHist, cycHist, svcHist>>

\* } while (!done); (line 453)
LoopCond ==
  /\ pc = "loopCond"
  /\ pc' = IF done THEN "finish" ELSE "tick"
  /\ UNCHANGED <<decVars, cfgVars, rc, idx, nstreams, transfer_bytes, objVars, devState,
                 timeVars, tickVars, repVars, strVars, openHist, stopHist,
                 cycHist, svcHist>>

\* uint64_t elapsed_time = time_us() - start_time; (line 455)
Finish ==
  /\ pc = "finish"
  /\ \E t \in ClockReads :
       /\ now' = t /\ advances' = Advanced(t)
       /\ elapsed_us' = t - start_time
  /\ pc' = "stopDone" /\ idx' = 0
  /\ UNCHANGED <<decVars, cfgVars, rc, nstreams, transfer_bytes, objVars, devState,
                 start_time, tickVars, prev_bytes, reported, loop_entered,
                 strVars, openHist, stopHist, cycHist, svcHist>>

Next ==
  \/ Configure
  \/ OpenStream \/ OpenNoFactory \/ Rollback \/ EnterLoop
  \/ TickBegin
  \/ ServiceStream \/ ServiceLoopExit
  \/ SuspendCheck \/ PauseStream \/ PauseLoopExit \/ SuspendDevice
  \/ SuspendingCheck \/ SetSuspended
  \/ SuspendedCheck \/ ResumeDevice
  \/ ResumingCheck \/ ResumeStream \/ ResumeLoopExit \/ SetStreaming
  \/ DevService
  \/ StopFailed \/ ReturnFailed
  \/ Report \/ LoopCond \/ Finish
  \/ StopDone \/ ReturnDone

Init == InitWith(DescriptorsUpTo(MaxArg0))

Spec == Init /\ [][Next]_vars

\* ------------------------------------------------------------------------
\* main (lines 555-579): the device is located, opened and asked for its
\* test descriptor before RunTest is called; rc is then the exit code of
\* the process.
\* ------------------------------------------------------------------------
\* A call of main on the device object either succeeds, and main goes on to
\* next, or fails, and main returns code from the position failedAt.
DeviceCall(label, next, failedAt, code) ==
  /\ pc = label
  /\ \/ pc' = next /\ rc' = rc
     \/ pc' = failedAt /\ rc' = code
  /\ UNCHANGED <<decVars, cfgVars, idx, nstreams, transfer_bytes, objVars, devState,
                 timeVars, tickVars, repVars, strVars, openHist, stopHist,
                 cycHist, svcHist>>

\* if (!dev.Init(...)) return 2; (lines 559-561)
DevInit == DeviceCall("devInit", "devOpen", "devInitFailed", 2)

\* if (!dev.Open()) { dev.Fin(); return 3; } (lines 563-566)
DevOpen == DeviceCall("devOpen", "readTestDesc", "devOpenFailed", 3)

\* if (!dev.ReadTestDesc()) { dev.Fin(); return 3; } (lines 570-573);
\* on success RunTest is called (line 575) and its result returned.
ReadTestDesc ==
  DeviceCall("readTestDesc", "configure", "readTestDescFailed", 3)

InitMain == InitAt(DescriptorsUpTo(MaxArg0), "devInit", 0)

NextMain == DevInit \/ DevOpen \/ ReadTestDesc \/ Next

SpecMain == InitMain /\ [][NextMain]_vars

\* ------------------------------------------------------------------------
\* Runs in which the loop is expected to end: no Service() call fails, a
\* stream that has answered Completed() keeps answering it, and the clock
\* moves in steps of kRunInterval.
\* ------------------------------------------------------------------------
\* Advancing clock reads of a run of MaxLiveCycles cycles: eight per cycle
\* (lines 363, 373, 399, 403, 408, 411, 416, 423), lines 331 and 455, and
\* lines 363 and 373 of the last tick.
LiveAdvances == 8 * MaxLiveCycles + 4

\* The streams that went back on Completed() in a step, or were serviced
\* after MaxLiveCycles cycles and did not answer Completed().
Incomplete ==
  {i \in StreamIdx :
     /\ ~completed'[i]
     /\ \/ completed[i]
        \/ /\ setStreamings >= MaxLiveCycles
           /\ i \in svcTick' /\ i \notin svcTick}

LiveEnv ==
  /\ failed' = FALSE
  /\ now' \in {now, now + kRunInterval}
  /\ Incomplete = {}

\* Streams tests of 1..MaxLiveStreams streams.
LiveDescriptors == {Descriptor("Streams", n, 0) : n \in 1..MaxLiveStreams}

InitLive == InitAt(LiveDescriptors, "configure", MaxAdvances - LiveAdvances)

NextLive ==
  \/ Configure /\ LiveEnv
  \/ OpenStream /\ LiveEnv
  \/ OpenNoFactory /\ LiveEnv
  \/ Rollback /\ LiveEnv
  \/ EnterLoop /\ LiveEnv
  \/ TickBegin /\ LiveEnv
  \/ ServiceStream /\ LiveEnv
  \/ ServiceLoopExit /\ LiveEnv
  \/ SuspendCheck /\ LiveEnv
  \/ PauseStream /\ LiveEnv
  \/ PauseLoopExit /\ LiveEnv
  \/ SuspendDevice /\ LiveEnv
  \/ SuspendingCheck /\ LiveEnv
  \/ SetSuspended /\ LiveEnv
  \/ SuspendedCheck /\ LiveEnv
  \/ ResumeDevice /\ LiveEnv
  \/ ResumingCheck /\ LiveEnv
  \/ ResumeStream /\ LiveEnv
  \/ ResumeLoopExit /\ LiveEnv
  \/ SetStreaming /\ LiveEnv
  \/ DevService /\ LiveEnv
  \/ Report /\ LiveEnv
  \/ LoopCond /\ LiveEnv
  \/ Finish /\ LiveEnv
  \/ StopDone /\ LiveEnv
  \/ ReturnDone /\ LiveEnv

\* A read of the clock the loop waits on (lines 363, 399, 408, 416) that
\* sees it advanced.
ClockSeenAdvanced ==
  /\ SuspendCheck \/ SuspendingCheck \/ SuspendedCheck \/ ResumingCheck
  /\ now' > now
  /\ LiveEnv

\* A Service() call after which a stream answers Completed() for the first
\* time.
StreamCompletes ==
  /\ ServiceStream
  /\ ~completed[idx] /\ completed'[idx]
  /\ LiveEnv

\* The program takes its next step; time advances; every stream answers
\* Completed() after finitely many Service() calls.
LiveFairness ==
  /\ WF_vars(NextLive)
  /\ SF_vars(ClockSeenAdvanced)
  /\ SF_vars(StreamCompletes)

SpecLive == InitLive /\ [][NextLive]_vars /\ LiveFairness

\* The open phase alone, over more streams: the run is followed up to the
\* entry of the loop.
InitOpen == InitWith(DescriptorsUpTo(MaxOpenArg0))

NextOpen == Configure \/ OpenStream \/ OpenNoFactory \/ Rollback \/ EnterLoop

SpecOpen == InitOpen /\ [][NextOpen]_vars

\* The interpretation of the descriptor over its whole range, followed up
\* to the entry of the loop.
InitDesc == InitWith(WideDescriptors)

SpecDesc == InitDesc /\ [][NextOpen]_vars

\* ------------------------------------------------------------------------
\* fw_error_decoder (src/util/fw_error_decoder.c)
\* ------------------------------------------------------------------------
\* Numbers wider than 31 bits are held in 16-bit halves: a 32-bit word is
\* [hi, lo]; a 64-bit long is [up, hi, lo], where up is 0 or -1 as bits
\* 63..32 are all clear or all set.
Half == 65536
Word(h, l) == [hi |-> h, lo |-> l]
Long(u, h, l) == [up |-> u, hi |-> h, lo |-> l]

\* The digits strtol accepts in base 16.
LowerDigits ==
  <<"0", "1", "2", "3", "4", "5", "6", "7", "8", "9",
    "a", "b", "c", "d", "e", "f">>
UpperDigits ==
  <<"0", "1", "2", "3", "4", "5", "6", "7", "8", "9",
    "A", "B", "C", "D", "E", "F">>
IsXDigit(c) == \E n \in 1..16 : LowerDigits[n] = c \/ UpperDigits[n] = c
DigitValue(c) ==
  (CHOOSE n \in 1..16 : LowerDigits[n] = c \/ UpperDigits[n] = c) - 1

\* strtol: leading white space is skipped.
RECURSIVE SkipSpace(_, _)
SkipSpace(s, p) ==
  IF p <= Len(s) /\ s[p] = " " THEN SkipSpace(s, p + 1) ELSE p

\* strtol: the digits run up to the first character that is not one.
RECURSIVE DigitsEnd(_, _)
DigitsEnd(s, p) ==
  IF p <= Len(s) /\ IsXDigit(s[p]) THEN DigitsEnd(s, p + 1) ELSE p

\* The k-th of the eight low nibbles of the digits s[from..to-1].
Nibble(s, from, to, k) ==
  LET p == to - 9 + k IN IF p >= from THEN DigitValue(s[p]) ELSE 0

\* The number written by the digits s[from..to-1], eight digits at most.
HexValue(s, from, to) ==
  Long(0,
       Nibble(s, from, to, 1) * 4096 + Nibble(s, from, to, 2) * 256
         + Nibble(s, from, to, 3) * 16 + Nibble(s, from, to, 4),
       Nibble(s, from, to, 5) * 4096 + Nibble(s, from, to, 6) * 256
         + Nibble(s, from, to, 7) * 16 + Nibble(s, from, to, 8))

\* -v in 64 bits, for v of 0 .. 2^32 - 1.
Negate(v) ==
  IF v.hi = 0 /\ v.lo = 0
    THEN v
    ELSE Long(-1,
              (Half - 1 - v.hi + (IF v.lo = 0 THEN 1 ELSE 0)) % Half,
              (Half - v.lo) % Half)

\* strtol(code, &end, 16) of line 56: white space, a sign and a 0x prefix
\* are accepted before the digits; end is the position of the first
\* character not parsed, and the start of the string when there is no
\* digit.
Strtol16(s) ==
  LET n == Len(s)
      p0 == SkipSpace(s, 1)
      neg == p0 <= n /\ s[p0] = "-"
      p1 == IF p0 <= n /\ s[p0] \in {"+", "-"} THEN p0 + 1 ELSE p0
      p2 == IF /\ p1 + 2 <= n
               /\ s[p1] = "0"
               /\ s[p1 + 1] \in {"x", "X"}
               /\ IsXDigit(s[p1 + 2])
              THEN p1 + 2 ELSE p1
      q == DigitsEnd(s, p2)
      mag == HexValue(s, p2, q)
  IN IF q = p2
       THEN [value |-> Long(0, 0, 0), end |-> 1]
       ELSE [value |-> IF neg THEN Negate(mag) ELSE mag, end |-> q]

\* edesc->value, an int, as it is compared with the long error_value
\* (line 68): the int is sign-extended.
IntToLong(w) == Long(IF w.hi >= 32768 THEN -1 ELSE 0, w.hi, w.lo)

\* The while loop of lines 67-73: the index at which edesc stops, on the
\* entry equal to v, on an entry of value 0 or on the empty element that
\* ends the table.
RECURSIVE Scan(_, _, _)
Scan(tbl, k, v) ==
  IF k > Len(tbl) THEN k
  ELSE IF tbl[k].value = Word(0, 0) THEN k
  ELSE IF IntToLong(tbl[k].value) = v THEN k
  ELSE Scan(tbl, k + 1, v)

\* edesc->value after the loop (line 75).
Found(tbl, k) == k <= Len(tbl) /\ tbl[k].value /= Word(0, 0)

\* mcause of lines 85-86, a uint32_t: bit 31 of the code and its bits
\* 30..24 (1 << 31 is INT_MIN in the builds of this tool).
Mcause(v) ==
  Word(IF v.hi >= 32768 THEN 32768 ELSE 0, (v.hi \div 256) % 128)

\* One line of output: the code of line 63 and what follows it.
Line(v, k, t, m, st) ==
  [code |-> v, kind |-> k, text |-> t, mcause |-> m, status |-> st]

\* The line printed for error_value v (lines 63-97); 'R' is 82, 'I' is 73.
Decode(tbl, v) ==
  LET edesc == Scan(tbl, 1, v)
      mod_high == v.hi % 256
      mod_low == v.lo \div 256
  IN IF Found(tbl, edesc)
       THEN Line(v, "name", tbl[edesc].text, Word(0, 0), 0)
     ELSE IF \/ mod_high = 82 /\ mod_low = 73
             \/ mod_high = 73 /\ mod_low = 82
       THEN Line(v, "interrupt", IF mod_high = 82 THEN "ROM_EXT " ELSE "",
                 Mcause(v), v.lo % 256)
     ELSE Line(v, "unknown", "", Word(0, 0), 0)

\* argc == 1: usage(0) (lines 49-51); otherwise the loop is entered.
DecoderStart ==
  /\ pc = "decStart"
  /\ IF Len(argv) = 0
       THEN pc' = "exited" /\ rc' = 0
       ELSE pc' = "decLoop" /\ rc' = rc
  /\ UNCHANGED <<decVars, cfgVars, idx, nstreams, transfer_bytes, objVars,
                 devState, timeVars, tickVars, repVars, strVars, openHist,
                 stopHist, cycHist, svcHist>>

\* One iteration of the loop of lines 53-98: argv[i] is parsed; if *end is
\* not the end of the string usage(1) exits, otherwise a line is printed.
DecodeArgument ==
  /\ pc = "decLoop" /\ argi <= Len(argv)
  /\ LET code == argv[argi]
         parsed == Strtol16(code)
     IN /\ argi' = argi + 1
        /\ IF parsed.end <= Len(code)
             THEN pc' = "exited" /\ rc' = 1 /\ output' = output
             ELSE /\ output' = Append(output, Decode(error_table, parsed.value))
                  /\ pc' = pc /\ rc' = rc
  /\ UNCHANGED <<error_table, argv, cfgVars, idx, nstreams, transfer_bytes,
                 objVars, devState, timeVars, tickVars, repVars, strVars,
                 openHist, stopHist, cycHist, svcHist>>

\* i == argc: main is left through its closing brace (line 99).
DecoderReturn ==
  /\ pc = "decLoop" /\ argi > Len(argv)
  /\ pc' = "exited" /\ rc' = 0
  /\ UNCHANGED <<decVars, cfgVars, idx, nstreams, transfer_bytes, objVars,
                 devState, timeVars, tickVars, repVars, strVars, openHist,
                 stopHist, cycHist, svcHist>>

\* Error tables drawn for DEFINE_ERRORS: codes are 32-bit, named here
\* after their use.
kErrorOk == [text |-> "kErrorOk", value |-> Word(0, 1849)]
kErrorInterrupt == [text |-> "kErrorInterrupt", value |-> Word(73, 20994)]
kErrorUnknown == [text |-> "kErrorUnknown", value |-> Word(65535, 65535)]
ErrorTables ==
  {<<kErrorOk, kErrorInterrupt>>, <<kErrorOk, kErrorInterrupt, kErrorUnknown>>}

\* Arguments drawn: 739, 495202, 8b495203, 524901, 12, ffffffff, 0x739,
\* -1, 12g.
ArgStrings ==
  {<<"7", "3", "9">>,
   <<"4", "9", "5", "2", "0", "2">>,
   <<"8", "b", "4", "9", "5", "2", "0", "3">>,
   <<"5", "2", "4", "9", "0", "1">>,
   <<"1", "2">>,
   <<"f", "f", "f", "f", "f", "f", "f", "f">>,
   <<"0", "x", "7", "3", "9">>,
   <<"-", "1">>,
   <<"1", "2", "g">>}

RECURSIVE ArgLists(_)
ArgLists(n) ==
  IF n = 0 THEN {<<>>}
  ELSE ArgLists(n - 1)
         \cup {Append(l, a) : l \in {x \in ArgLists(n - 1) : Len(x) = n - 1},
                              a \in ArgStrings}

InitDecode ==
  /\ RunTestInit({Descriptor("Other", 0, 0)}, "decStart", 0)
  /\ ~cfg_suspending /\ ~libusb
  /\ error_table \in ErrorTables
  /\ argv \in ArgLists(MaxArgs)
  /\ argi = 1 /\ output = <<>>

NextDecode == DecoderStart \/ DecodeArgument \/ DecoderReturn

SpecDecode == InitDecode /\ [][NextDecode]_vars

\* ------------------------------------------------------------------------
\* Type invariant
\* ------------------------------------------------------------------------
TypeOK ==
  /\ pc \in {"configure", "crashed", "open", "rollback", "aborted", "tick",
             "service", "suspendCheck", "pause", "suspend", "suspending",
             "setSuspended", "suspended", "resumeDevice", "resuming",
             "resume", "setStreaming", "devService", "stopFailed", "report",
             "loopCond", "finish", "stopDone", "returned", "devInit",
             "devOpen", "readTestDesc", "devInitFailed", "devOpenFailed",
             "readTestDescFailed", "decStart", "decLoop", "exited"}
  /\ rc \in {-1, 0, 1, 2, 3}
  /\ devState \in {"Streaming", "Suspending", "Suspended", "Resuming"}
  /\ idx \in 0..15 /\ nstreams \in 0..15
  /\ start_time <= now

\* ------------------------------------------------------------------------
\* Properties
\* ------------------------------------------------------------------------
\* The streams of this run.
Streams == 0..(nstreams - 1)

\* C1: a stream's Service() is invoked only in a tick whose state, read at
\* the start of the tick, is Streaming; in a tick that read Suspending,
\* Suspended or Resuming no stream is serviced.
C1_ServiceOnlyWhenStreaming ==
  (pc = "service" \/ svcTick /= {}) => tickState = "Streaming"

\* A Suspended tick in which the device was serviced and no stream was.
C1_Witness ==
  /\ pc = "report" /\ tickState = "Suspended" /\ devSvcTick
  /\ nstreams = 2 /\ svcTick = {}

\* The successor of a state in the cycle.
CycleNext(s) ==
  CASE s = "Streaming" -> "Suspending"
    [] s = "Suspending" -> "Suspended"
    [] s = "Suspended" -> "Resuming"
    [] s = "Resuming" -> "Streaming"

\* C2: the device state starts in Streaming and every change of it goes to
\* the next state of the cycle Streaming -> Suspending -> Suspended ->
\* Resuming -> Streaming.
C2_StateCycle ==
  /\ devState = "Streaming"
  /\ [][devState' = devState \/ devState' = CycleNext(devState)]_vars

\* The cycle has been completed once and entered again.
C2_Witness ==
  /\ setStreamings = 1 /\ suspends = 2 /\ devState = "Suspending"

\* C3: Pause() and Suspend() happen only in a Streaming tick with suspend
\* testing enabled and the run interval elapsed; a Streaming tick that finds
\* the interval elapsed starts the transition; per cycle every stream is
\* paused once and the device suspended once; with suspend testing disabled
\* neither ever happens.
C3_SuspendOnlyWhenDue ==
  /\ [](\A i \in Streams :
          /\ pauses[i] \in {suspends, suspends + 1}
          /\ devState /= "Streaming" => pauses[i] = suspends)
  /\ [](suspends = setStreamings + (IF devState = "Streaming" THEN 0 ELSE 1))
  /\ [](~cfg_suspending => suspends = 0 /\ \A i \in StreamIdx : pauses[i] = 0)
  /\ [][pauses' /= pauses \/ suspends' /= suspends =>
          /\ cfg_suspending /\ tickState = "Streaming"
          /\ devState = "Streaming"
          /\ now - start_time >= 5000000]_vars
  /\ [][pc = "suspendCheck" /\ cfg_suspending
          /\ now' - start_time >= 5000000 => pc' = "pause"]_vars

\* The transition has been performed: both streams paused, device suspended.
C3_Witness ==
  /\ devState = "Suspending" /\ suspends = 1 /\ nstreams = 2
  /\ pauses[0] = 1 /\ pauses[1] = 1

\* C4: when the device is commanded to suspend every stream has received the
\* Pause() of this cycle, and when the state is set back to Streaming every
\* stream has received the Resume() of this cycle.
C4_NotifyBeforeStateChange ==
  /\ [][suspends' /= suspends =>
          \A i \in Streams : pauses[i] = suspends + 1]_vars
  /\ [][setStreamings' /= setStreamings \/
        (devState = "Resuming" /\ devState' /= "Resuming") =>
          \A i \in Streams : resumes[i] = setStreamings + 1]_vars

\* Back in Streaming with both streams paused and resumed.
C4_Witness ==
  /\ devState = "Streaming" /\ setStreamings = 1 /\ nstreams = 2
  /\ pauses[0] = 1 /\ pauses[1] = 1 /\ resumes[0] = 1 /\ resumes[1] = 1

\* C5: a non-Streaming state is left, and the timer restarted, only when the
\* time since the state was entered is at least its dwell (5,000 us,
\* 5,000,000 us, 30,000 us); the timer is restarted on every state change.
C5_DwellBeforeLeaving ==
  /\ [][devState /= "Streaming" /\
        (devState' /= devState \/ start_time' /= start_time) =>
          now - start_time >=
            (CASE devState = "Suspending" -> 5000
               [] devState = "Suspended" -> 5000000
               [] devState = "Resuming" -> 30000)]_vars
  /\ [][devState' /= devState => start_time' = now']_vars

\* A Resuming tick that found 5,000 us of the 30,000 us elapsed and left the
\* state and the timer alone.
C5_Witness ==
  /\ pc = "loopCond" /\ tickState = "Resuming" /\ devState = "Resuming"
  /\ now - start_time = 5000 /\ devResumes = 1

\* C6: where the loop reads done (the report and the loop condition), done
\* is true exactly if every stream is complete; streams become complete only
\* in their own Service() call; byte counts play no part.
C6_DoneIffAllCompleted ==
  /\ [](pc \in {"report", "loopCond"} =>
          (done <=> \A i \in Streams : completed[i]))
  /\ [][completed' /= completed => pc = "service"]_vars

\* The loop is left as done although fewer bytes were received than expected.
C6_Witness ==
  /\ pc = "finish" /\ done /\ nstreams = 2
  /\ total_recv < total_bytes

\* C7: after a stream's Service() returned false no stream is serviced,
\* paused or resumed, and the device is neither suspended nor serviced.
C7_AbortImmediately ==
  [][svcFailedAt /= -1 =>
       /\ svcTick' = svcTick /\ devSvcTick' = devSvcTick
       /\ pauses' = pauses /\ resumes' = resumes
       /\ suspends' = suspends /\ devState' = devState]_vars

\* C8: however the loop is left, Stop() is called once on every stream in
\* ascending order before RunTest returns, and 0 or 3 is returned whatever
\* the Stop() calls answer.
C8_StopAllOnExit ==
  /\ Len(stopCalls) <= nstreams
  /\ \A k \in 1..Len(stopCalls) : stopCalls[k] = k - 1
  /\ (pc = "returned" /\ rc \in {0, 3}) =>
       /\ Len(stopCalls) = nstreams
       /\ rc = (IF failed THEN 3 ELSE 0)
       /\ ~failed => done
  /\ (pc = "returned" /\ rc = 1) => stopCalls = <<>>

\* Stream 0 failed in Service(); stream 1, not serviced in that tick, was
\* stopped too, and the second Stop() answered false.
C8_Witness ==
  /\ pc = "returned" /\ rc = 3 /\ svcFailedAt = 0 /\ nstreams = 2
  /\ 1 \notin svcTick /\ stopCalls = <<0, 1>> /\ stopRets = <<TRUE, FALSE>>

\* Number of streams opened successfully.
OpenedCount == Cardinality({i \in StreamIdx : streams[i] /= "null"})

\* C9: streams are opened in ascending order; when the open of stream k
\* fails the streams k-1 .. 0 are deleted once each in that order, nothing
\* beyond k is opened, nothing is serviced, 1 is returned and no stream is
\* left open.
C9_OpenAllOrNothing ==
  /\ \A k \in 1..Len(openCalls) : openCalls[k] = k - 1
  /\ \A j \in 1..Len(deleteCalls) : deleteCalls[j] = OpenedCount - j
  /\ (pc = "returned" /\ rc = 1) =>
       /\ Len(deleteCalls) = OpenedCount
       /\ Len(openCalls) <= OpenedCount + 1
       /\ \A i \in StreamIdx : streams[i] /= "live"
       /\ svcTick = {} /\ ~devSvcTick

\* The open of stream 2 failed and streams 1 and 0 were deleted.
C9_Witness ==
  /\ pc = "returned" /\ rc = 1 /\ openCalls = <<0, 1, 2>>
  /\ deleteCalls = <<1, 0>>

\* C10: when RunTest returns 1 no stream object created by it remains
\* allocated.
C10_NoLeakOnOpenFailure ==
  (pc = "returned" /\ rc = 1) => allocated = {}

\* The descriptor has been interpreted: nstreams is set.
Configured == pc /= "configure"

\* The low nibble of a byte, by subtraction of the high nibble.
LowNibble(b) == b - 16 * (b \div 16)

CodeInBytes(args, i) ==
  IF i < 12 THEN (args[1 + (i \div 4)] \div Pow2(2 * (i % 4))) % 4 ELSE 0

TypeOfCode(c) ==
  CASE c = 0 -> "Control"
    [] c = 1 -> "Isochronous"
    [] c = 2 -> "Bulk"
    [] c = 3 -> "Interrupt"

\* C12: in a Mixed test the type of stream i is the decoding (0 Control,
\* 1 Isochronous, 2 Bulk, 3 Interrupt) of the 2 bits at offset 2*i of
\* testArg[3]:testArg[2]:testArg[1]; testArg[0] plays no part.
C12_MixedDecoding ==
  testNum = "Mixed" =>
    \A i \in StreamIdx :
      streamTypes[i] /= "none" =>
        streamTypes[i] = TypeOfCode(CodeInBytes(testArg, i))

\* A Mixed test whose streams 0..11 took their types from all three bytes
\* and whose stream 12, beyond the 24 bits, decoded to Control.
C12_Witness ==
  /\ testNum = "Mixed" /\ testArg[1] = 174 /\ testArg[3] = 174
  /\ streamTypes[1] = "Interrupt" /\ streamTypes[11] = "Bulk"
  /\ streamTypes[12] = "Control"

\* C13: the streams of a Streams test are all Serial if serial is preferred
\* and suspend/resume testing is disabled, all Bulk otherwise; those of an
\* Isochronous test are all Isochronous; any other test has 2 Bulk streams.
C13_UniformTypes ==
  /\ \A i \in StreamIdx :
       streamTypes[i] /= "none" =>
         /\ testNum = "Streams" =>
              streamTypes[i] = (IF cfg_serial /\ ~cfg_suspending
                                  THEN "Serial" ELSE "Bulk")
         /\ testNum = "Iso" => streamTypes[i] = "Isochronous"
         /\ testNum = "Other" => streamTypes[i] = "Bulk" /\ i < 2
         /\ cfg_suspending => streamTypes[i] /= "Serial"
  /\ (Configured /\ testNum = "Other") => nstreams = 2

\* A Streams test with serial preferred and suspend/resume testing enabled
\* opened its streams as Bulk.
C13_Witness ==
  /\ testNum = "Streams" /\ cfg_serial /\ cfg_suspending
  /\ streamTypes[0] = "Bulk" /\ streamTypes[1] = "Bulk" /\ pc = "tick"

\* C14: every stream type the interpreter yields for a Streams, Isochronous
\* or Mixed test has a factory in the open step, so the process never
\* aborts on an unrecognised stream type.
C14_FactoryForEveryType ==
  /\ pc /= "aborted"
  /\ testNum \in {"Streams", "Iso", "Mixed"} =>
       \A i \in StreamIdx :
         streamTypes[i] \in {"Control", "Isochronous", "Bulk", "Interrupt",
                             "Serial"} =>
           i \in {openCalls[k] : k \in 1..Len(openCalls)}

\* C18: for every stream count the per-stream transfer size is defined and
\* is the total of 16 MiB divided by nstreams, rounded up.
C18_TransferApportioned ==
  /\ pc /= "crashed"
  /\ Configured =>
       /\ nstreams * transfer_bytes >= 16777216
       /\ nstreams * transfer_bytes < 16777216 + nstreams

\* C16: a progress report is made in a tick only if the streams' total of
\* sent bytes differs from the total last reported by more than 4096, or if
\* done is true on that tick.  (Streams send only when serviced, so in a
\* tick that is not Streaming their total is within 4096 of the total last
\* reported.)
C16_ReportOnlyOnProgress ==
  [][(reported' /\ ~reported) =>
       \/ done
       \/ /\ tickState = "Streaming"
          /\ Abs(total_sent - prev_bytes) > 4096]_vars

\* C19: for each stream Pause() and Resume() alternate, Pause() first, and
\* the stream is not serviced between a Pause() and the Resume() after it.
C19_PauseResumeAlternate ==
  /\ [](\A i \in StreamIdx : pauses[i] - resumes[i] \in {0, 1})
  /\ [][\A i \in StreamIdx :
          /\ pauses'[i] /= pauses[i] => pauses[i] = resumes[i]
          /\ resumes'[i] /= resumes[i] => pauses[i] = resumes[i] + 1
          /\ (i \in svcTick' /\ i \notin svcTick) => pauses[i] = resumes[i]]_vars

\* Stream 1 was paused, resumed, serviced again and paused a second time.
C19_Witness ==
  /\ nstreams = 2 /\ pauses[1] = 2 /\ resumes[1] = 1 /\ 1 \in svcTick

\* C20 as claimed: at a successful return the device state is Streaming and
\* every stream that was paused has been resumed.
C20_ExitInStreaming ==
  (pc = "returned" /\ rc = 0) =>
    /\ devState = "Streaming"
    /\ \A i \in StreamIdx : pauses[i] = resumes[i]

\* C20 as amended: the final tick of a successful run is a Streaming tick;
\* it still pauses every stream and suspends the device if the run interval
\* has elapsed, so the run ends in Streaming or in Suspending; every Pause()
\* of an earlier tick has been followed by a Resume().
C20_ExitAfterStreamingTick ==
  (pc = "returned" /\ rc = 0) =>
    /\ tickState = "Streaming"
    /\ devState \in {"Streaming", "Suspending"}
    /\ suspends = setStreamings + (IF devState = "Streaming" THEN 0 ELSE 1)
    /\ \A i \in Streams :
         /\ resumes[i] = setStreamings
         /\ pauses[i] = suspends
         /\ Len(SelectSeq(stopCalls, LAMBDA x : x = i)) = 1

\* A successful run whose final tick paused both streams and suspended the
\* device, after one complete suspend/resume cycle.
C20_Witness ==
  /\ pc = "returned" /\ rc = 0 /\ nstreams = 2 /\ devState = "Suspending"
  /\ setStreamings = 1 /\ pauses[0] = 2 /\ resumes[0] = 1

\* The process has exited through a return of main.
Exited ==
  pc \in {"returned", "devInitFailed", "devOpenFailed", "readTestDescFailed"}

\* The run succeeded: RunTest left the loop with every stream completed.
RunSucceeded == pc = "returned" /\ done /\ ~failed

\* A Service() call of a stream or of the device failed inside the loop.
MidRunFailure == pc = "returned" /\ failed

\* A stream could not be opened (lines 310-319).
StreamOpenFailure == pc = "returned" /\ ~done /\ ~failed

\* The device could not be initialised (lines 559-561).
DeviceInitFailure == pc = "devInitFailed"

\* C17: the exit code is 0 exactly when the run succeeded, and a non-zero
\* exit code alone tells which failure occurred: the code of a device-init
\* failure, of a stream open failure and of a mid-run failure are each
\* returned for that failure only.
C17_ExitCodeIdentifiesFailure ==
  Exited =>
    /\ rc = 0 <=> RunSucceeded
    /\ rc = 2 <=> DeviceInitFailure
    /\ rc = 1 <=> StreamOpenFailure
    /\ rc = 3 <=> MidRunFailure

\* C15: once the loop has started, if no Service() call fails, time
\* advances and every stream comes to answer Completed() and keeps
\* answering it, the loop is eventually left with done true and RunTest
\* returns 0, with suspend/resume testing enabled or not.
C15_LoopTerminates == (pc = "tick") ~> (pc = "returned" /\ rc = 0 /\ done)

\* A run with suspend/resume testing that went through a whole cycle and
\* then returned success.
C15_Witness ==
  /\ pc = "returned" /\ rc = 0 /\ done
  /\ cfg_suspending /\ setStreamings = MaxLiveCycles
  /\ nstreams = 2

\* C21: the duration reported on successful completion is the time from
\* the entry of the loop (line 331) to the read of the clock at the loop's
\* exit (line 455), in every run, suspend/resume testing included.
C21_DurationSinceLoopEntry ==
  (pc = "returned" /\ rc = 0) => elapsed_us = now - loop_entered

\* The argument is made of hexadecimal digits only.
HexOnly(s) == \A k \in 1..Len(s) : IsXDigit(s[k])

\* The code an argument of hexadecimal digits writes.
CodeOf(s) == HexValue(s, 1, Len(s) + 1)

\* The entries of the table that define code v.
Defining(tbl, v) ==
  {k \in 1..Len(tbl) : Long(0, tbl[k].value.hi, tbl[k].value.lo) = v}

\* The classification of code v: the name of the table entry of that
\* value; otherwise the interrupt/exception line; otherwise unknown.
Expected(tbl, v) ==
  IF Defining(tbl, v) /= {}
    THEN Line(v, "name", tbl[CHOOSE k \in Defining(tbl, v) : TRUE].text,
              Word(0, 0), 0)
  ELSE IF {v.hi % 256, v.lo \div 256} = {82, 73}
    THEN Line(v, "interrupt", IF v.hi % 256 = 82 THEN "ROM_EXT " ELSE "",
              Mcause(v), v.lo % 256)
  ELSE Line(v, "unknown", "", Word(0, 0), 0)

\* The arguments that contain a character that is not a hexadecimal digit.
NotHex == {k \in 1..Len(argv) : ~HexOnly(argv[k])}

\* The arguments before the first one that is not hexadecimal.
HexPrefix ==
  IF NotHex = {}
    THEN Len(argv)
    ELSE (CHOOSE k \in NotHex : \A j \in NotHex : k <= j) - 1

\* C22: fw_error_decoder prints, for each hexadecimal argument in order,
\* the name of the table entry of that code, otherwise the
\* interrupt/exception line when bits 23..16 and 15..8 are 'R','I' or
\* 'I','R', otherwise unknown; an argument with a character that is not a
\* hexadecimal digit ends the program with status 1 and nothing after it
\* is decoded.
C22_DecodesEveryArgument ==
  pc = "exited" =>
    /\ Len(output) = HexPrefix
    /\ NotHex /= {} => rc = 1
    /\ \A k \in 1..HexPrefix :
         k <= Len(output) =>
           output[k] = Expected(error_table, CodeOf(argv[k]))

====
